---- MODULE Spec2Model ----
(***************************************************************************)
(* Model of the keyed record store facade of noria's backlog               *)
(* (dataflow/src/backlog/multiw.rs): one writer driving                    *)
(* add/clear/empty/set_meta/refresh on a Handle over an evmap write        *)
(* handle, and readers calling meta_get_and.  The evmap primitive itself   *)
(* is an external crate; its two-copy publish/refresh protocol is taken    *)
(* from the design description, its removal of emptied value-sets from the *)
(* comment in Handle::add.                                                 *)
(***************************************************************************)
EXTENDS Integers, Sequences, FiniteSets, TLC

\* ------------------------------------------------------------------ bounds
MaxOps == 3       \* writer operations (records, clear, empty, set_meta, refresh)

\* --------------------------------------------------------------- the data
Backends == {"Single", "Double", "Many"}

\* the `cols` argument of add: the declared row width
cols == 2

\* full-width rows, and a row narrower than `cols`
Rows == {<<1, 1>>, <<1, 2>>}
ShortRows == {<<1>>}

\* core::Record
Records ==
  [tag : {"Positive", "Negative"}, row : Rows \cup ShortRows]
    \cup {[tag |-> "BaseOperation", row |-> <<>>]}

\* the `key` argument of add: 0-based column positions
KeyColumns == {<<0>>, <<1, 0>>}

\* generic keys handed to clear / empty / meta_get_and
Keys == {<<r[1]>> : r \in Rows} \cup {<<r[2], r[1]>> : r \in Rows}

\* the closures handed to meta_get_and
Thens == {"identity", "count_rows"}

\* initial meta of a fresh map
InitMeta == 0
Metas == {1, 2}

\* r.deep_size_of(): an opaque cost of a row (10 for <<_, 1>>, 20 for <<_, 2>>)
DeepSizeOf(r) == 10 * r[Len(r)]

\* ------------------------------------------------ evmap: one copy of the map
\* a copy is [ready, meta, data]; data maps each present key to its bucket
EmptyInner == [ready |-> FALSE, meta |-> InitMeta, data |-> <<>>]

Has(d, k) == k \in DOMAIN d

Put(d, k, b) == [x \in (DOMAIN d) \cup {k} |-> IF x = k THEN b ELSE d[x]]

Del(d, k) == [x \in (DOMAIN d) \ {k} |-> d[x]]

\* insert: append the row to the key's bucket, creating the bucket if absent
evInsert(d, k, r) == Put(d, k, Append(IF Has(d, k) THEN d[k] ELSE <<>>, r))

\* position of the first row equal to r, 0 if none
RECURSIVE Position(_, _, _)
Position(b, r, i) ==
  IF i > Len(b) THEN 0
  ELSE IF b[i] = r THEN i
  ELSE Position(b, r, i + 1)

\* remove one instance of a matching row from a bucket, if there is one
RemoveOne(b, r) ==
  LET i == Position(b, r, 1)
  IN IF i = 0 THEN b
     ELSE SubSeq(b, 1, i - 1) \o SubSeq(b, i + 1, Len(b))

\* mutation: a remove that matches no row drops the last row of the bucket
evRemovePopping(d, k, r) ==
  IF ~Has(d, k) THEN d
  ELSE IF Position(d[k], r, 1) = 0
       THEN Put(d, k, SubSeq(d[k], 1, Len(d[k]) - 1))
       ELSE LET b == RemoveOne(d[k], r)
            IN IF b = <<>> THEN Del(d, k) ELSE Put(d, k, b)

\* mutation: a remove drops every row equal to r
evRemoveAll(d, k, r) ==
  IF ~Has(d, k) THEN d
  ELSE LET b == SelectSeq(d[k], LAMBDA x : x # r)
       IN IF b = <<>> /\ d[k] # <<>> THEN Del(d, k) ELSE Put(d, k, b)

\* remove: drop one matching row; "evmap will remove the empty vec for a key
\* if we remove the last record"
evRemove(d, k, r) ==
  IF ~Has(d, k) THEN d
  ELSE LET b == RemoveOne(d[k], r)
       IN IF b = <<>> /\ d[k] # <<>> THEN Del(d, k) ELSE Put(d, k, b)

\* clear: the key is present with an empty bucket
evClear(d, k) == Put(d, k, <<>>)

\* empty: the key is removed from the map
evEmpty(d, k) == Del(d, k)

\* one logged operation applied to the data of a copy
Apply(d, o) ==
  CASE o.op = "insert" -> evInsert(d, o.key, o.row)
    [] o.op = "remove" -> evRemove(d, o.key, o.row)
    [] o.op = "clear" -> evClear(d, o.key)
    [] o.op = "empty" -> evEmpty(d, o.key)

\* transform closures
ApplyThen(f, b) == IF f = "count_rows" THEN Len(b) ELSE b

\* results of a lookup
None == [tag |-> "None"]
Some(x) == [tag |-> "Some", val |-> x]

\* ReadHandle::meta_get_and on one copy
evMetaGetAnd(inner, k, f) ==
  IF ~inner.ready THEN None
  ELSE Some(<<IF Has(inner.data, k) THEN Some(ApplyThen(f, inner.data[k])) ELSE None,
              inner.meta>>)

\* -------------------------------------------------------------- key shapes
\* mutation: the arity of the key is not checked
KeyFitsUnchecked(h, k) == TRUE

\* super::key_to_single / key_to_double assert the arity of the generic key
KeyFits(h, k) ==
  CASE h = "Single" -> Len(k) = 1
    [] h = "Double" -> Len(k) = 2
    [] h = "Many" -> TRUE

\* the key add files a record under: the projection of the row on the columns
Project(r, key) == [i \in 1..Len(key) |-> r[key[i] + 1]]

\* every column position of `key` indexes into the row
InRange(r, key) == \A i \in 1..Len(key) : key[i] + 1 <= Len(r)

\* ------------------------------------------------------------------- state
VARIABLES
  handle,        \* which backend the Handle wraps
  index,         \* the index columns the store was created with
  maps,          \* the two copies of the table, indexed 0 and 1
  pub,           \* index of the published copy; the other one is pending
  oplog,         \* operations applied to the pending copy since the last refresh
  wmeta,         \* the writer's meta, attached to a copy when it is published
  wpc,           \* writer position: "idle", "add", "refresh" or "fault"
  addKey,        \* the `key` argument of the add call in progress
  memory_delta,  \* the running total of the add call in progress
  ret,           \* what the last completed writer call returned
  res,           \* per reader: the outcome of its last meta_get_and
  nops,          \* writer operations issued so far
  logical,       \* history: the table after applying every issued operation in order
  snap,          \* history: the logical table and meta at the last refresh
  signed,        \* history: deep sizes of the Positive rows minus those of the Negative
                 \* rows of the add call in progress / just returned
  net,           \* history: per key only add touched, Positive rows minus matched
                 \* Negative records; -1 once clear or empty was called on it
  last,          \* history: per key, the last operation that took effect on it
  lastSet,       \* history: the argument of the most recent set_meta
  call,          \* history: the input of the writer's last step
  shrunk,        \* history: the keys a Negative record, clear or empty was issued for
  refDelta,      \* history: deep sizes of the Positive rows of the add call in
                 \* progress / just returned
  agg,           \* the DpAggregator: how far its construction got, and its fields
  view,          \* the grouped operator around it: the count it last emitted per
                 \* group, and the rows its last input produced
  seen,          \* history: the inputs the aggregator was given
  bin,           \* a BinaryMechanism used on its own
  fed,           \* history: the elements the BinaryMechanism was stepped with
  conv,          \* the SqlToMirConverter: schema_version, nodes, base_schemas
  mq,            \* what the converter's last call returned, or its panic
  asked          \* history: the converter's last call and the version before it

vars ==
  <<handle, index, maps, pub, oplog, wmeta, wpc, addKey, memory_delta,
    ret, res, nops, logical, snap, signed, net, last, lastSet, call, shrunk,
    refDelta, agg, view, seen, bin, fed, conv, mq, asked>>

\* the variables of the aggregator, and those of the store
dpv == <<agg, view, seen, bin, fed>>
mirv == <<conv, mq, asked>>
blv ==
  <<handle, index, maps, pub, oplog, wmeta, wpc, addKey, memory_delta,
    ret, res, nops, logical, snap, signed, net, last, lastSet, call, shrunk,
    refDelta>>

Readers == {1}

pending == 1 - pub

NoRet == [op |-> "none", val |-> 0]
NoRes == [tag |-> "init"]
FaultRes(k) == [tag |-> "fault", key |-> k]
NoCall == [op |-> "none"]

\* no aggregator has been constructed
NoAgg == [stage |-> "none", msg |-> ""]
NoView == [state |-> <<>>, out |-> <<>>]
NoInput ==
  [op |-> "none", diffs |-> 0, true |-> <<>>, negs |-> 0, over |-> 0,
   group_by |-> <<>>, g |-> 0, batch |-> <<>>, prev |-> <<>>]

\* no BinaryMechanism has been constructed
NoBin == [stage |-> "none", msg |-> ""]
NoFed == [elements |-> <<>>, defaulted |-> FALSE]

\* SqlToMirConverter::default(), and no call made yet
NewConverter == [schema_version |-> 0, nodes |-> {}, base_schemas |-> {}]
NoMq == [tag |-> "none"]
NoAsk == [op |-> "none", was |-> 0]

Init ==
  /\ handle \in Backends
  /\ index \in KeyColumns
  /\ KeyFits(handle, index)
  /\ maps = [i \in 0..1 |-> EmptyInner]
  /\ pub = 0
  /\ oplog = <<>>
  /\ wmeta = InitMeta
  /\ wpc = "idle"
  /\ addKey = <<>>
  /\ memory_delta = 0
  /\ ret = NoRet
  /\ res = [rd \in Readers |-> NoRes]
  /\ nops = 0
  /\ logical = <<>>
  /\ snap = EmptyInner
  /\ signed = 0
  /\ net = <<>>
  /\ last = <<>>
  /\ lastSet = InitMeta
  /\ call = NoCall
  /\ shrunk = {}
  /\ refDelta = 0
  /\ agg = NoAgg
  /\ view = NoView
  /\ seen = NoInput
  /\ bin = NoBin
  /\ fed = NoFed
  /\ conv = NewConverter
  /\ mq = NoMq
  /\ asked = NoAsk

\* the callers of a Many store pass keys of the arity it was created with;
\* Single and Double are also offered keys of the other arity
Offered(k) == handle = "Many" => Len(k) = Len(index)

\* ----------------------------------------------------- writer: one evmap call
Count(n, k) == IF k \in DOMAIN n THEN n[k] ELSE 0

\* does the row of a remove match a row of its key's bucket?
Matches(d, o) == Has(d, o.key) /\ Position(d[o.key], o.row, 1) # 0

\* history of Positive minus matched Negative records per key
NetAfter(o) ==
  IF Count(net, o.key) = -1 THEN net
  ELSE CASE o.op = "insert" -> Put(net, o.key, Count(net, o.key) + 1)
         [] o.op = "remove" ->
              IF Matches(logical, o)
              THEN Put(net, o.key, Count(net, o.key) - 1)
              ELSE Put(net, o.key, Count(net, o.key))
         [] OTHER -> Put(net, o.key, -1)

\* history of the last operation that took effect on each key
LastAfter(o) ==
  CASE o.op = "remove" ->
         IF ~Matches(logical, o) THEN last
         ELSE Put(last, o.key,
                  IF Len(logical[o.key]) = 1 THEN "removed_last" ELSE "remove")
    [] OTHER -> Put(last, o.key, o.op)

\* history of the keys that were not only grown
ShrunkAfter(o) == IF o.op = "insert" THEN shrunk ELSE shrunk \cup {o.key}

\* a write-handle operation o: applied to the pending copy and logged for
\* replay; g is the operation the histories record for the call
Issue(o, g) ==
  /\ maps' = [maps EXCEPT ![pending].data = Apply(@, o)]
  /\ oplog' = Append(oplog, o)
  /\ logical' = Apply(logical, g)
  /\ net' = NetAfter(g)
  /\ last' = LastAfter(g)
  /\ shrunk' = ShrunkAfter(g)

\* the operation the histories record
HistOp(kind, k, r) == [op |-> kind, key |-> k, row |-> r]

\* a panic of the writer thread: the call does not return
WriterFault ==
  /\ wpc' = "fault"
  /\ ret' = NoRet
  /\ UNCHANGED <<maps, oplog, logical, net, last, shrunk>>

InsertOp(k, r) == [op |-> "insert", key |-> k, row |-> r]
RemoveOp(k, r) == [op |-> "remove", key |-> k, row |-> r]

\* mutation: clear evicts the key
ClearOpEvicts(k) == [op |-> "empty", key |-> k, row |-> <<>>]

\* h.clear(key)
ClearOp(k) == [op |-> "clear", key |-> k, row |-> <<>>]

\* mutation: empty keeps the key with an empty bucket
EmptyOpKeeps(k) == [op |-> "clear", key |-> k, row |-> <<>>]

\* h.empty(key)
EmptyOp(k) == [op |-> "empty", key |-> k, row |-> <<>>]

\* mutation: clear builds the pair of a Double store in the opposite order
ClearSwapsPair(k) ==
  /\ wpc = "idle"
  /\ nops < MaxOps
  /\ Offered(k)
  /\ nops' = nops + 1
  /\ signed' = 0
  /\ IF KeyFits(handle, k)
     THEN LET kk == IF handle = "Double" THEN <<k[2], k[1]>> ELSE k
          IN Issue(ClearOp(kk), HistOp("clear", kk, <<>>)) /\ ret' = NoRet /\ UNCHANGED wpc
     ELSE WriterFault
  /\ call' = [op |-> "clear", key |-> k]
  /\ refDelta' = 0
  /\ UNCHANGED <<dpv, mirv, handle, index, pub, wmeta, addKey, memory_delta, res,
                 snap, lastSet>>

\* Handle::clear
Clear(k) ==
  /\ wpc = "idle"
  /\ nops < MaxOps
  /\ Offered(k)
  /\ nops' = nops + 1
  /\ signed' = 0
  /\ IF KeyFits(handle, k)
     THEN Issue(ClearOp(k), HistOp("clear", k, <<>>)) /\ ret' = NoRet /\ UNCHANGED wpc
     ELSE WriterFault
  /\ call' = [op |-> "clear", key |-> k]
  /\ refDelta' = 0
  /\ UNCHANGED <<dpv, mirv, handle, index, pub, wmeta, addKey, memory_delta, res,
                 snap, lastSet>>

\* Handle::empty
Empty(k) ==
  /\ wpc = "idle"
  /\ nops < MaxOps
  /\ Offered(k)
  /\ nops' = nops + 1
  /\ signed' = 0
  /\ IF KeyFits(handle, k)
     THEN Issue(EmptyOp(k), HistOp("empty", k, <<>>)) /\ ret' = NoRet /\ UNCHANGED wpc
     ELSE WriterFault
  /\ call' = [op |-> "empty", key |-> k]
  /\ refDelta' = 0
  /\ UNCHANGED <<dpv, mirv, handle, index, pub, wmeta, addKey, memory_delta, res,
                 snap, lastSet>>

\* mutation: set_meta returns the meta the readers currently see
SetMetaReturnsPublished(v) ==
  /\ wpc = "idle"
  /\ nops < MaxOps
  /\ nops' = nops + 1
  /\ signed' = 0
  /\ wmeta' = v
  /\ ret' = [op |-> "set_meta", val |-> maps[pub].meta]
  /\ lastSet' = v
  /\ call' = NoCall
  /\ refDelta' = 0
  /\ UNCHANGED <<dpv, mirv, handle, index, maps, pub, oplog, wpc, addKey, memory_delta,
                 res, logical, snap, net, last, shrunk>>

\* mutation: set_meta makes the new meta visible to readers at once
SetMetaImmediate(v) ==
  /\ wpc = "idle"
  /\ nops < MaxOps
  /\ nops' = nops + 1
  /\ signed' = 0
  /\ wmeta' = v
  /\ maps' = [maps EXCEPT ![pub].meta = v]
  /\ ret' = [op |-> "set_meta", val |-> wmeta]
  /\ lastSet' = v
  /\ call' = NoCall
  /\ refDelta' = 0
  /\ UNCHANGED <<dpv, mirv, handle, index, pub, oplog, wpc, addKey, memory_delta,
                 res, logical, snap, net, last, shrunk>>

\* Handle::set_meta: returns the previous meta
SetMeta(v) ==
  /\ wpc = "idle"
  /\ nops < MaxOps
  /\ nops' = nops + 1
  /\ signed' = 0
  /\ wmeta' = v
  /\ ret' = [op |-> "set_meta", val |-> wmeta]
  /\ lastSet' = v
  /\ call' = NoCall
  /\ refDelta' = 0
  /\ UNCHANGED <<dpv, mirv, handle, index, maps, pub, oplog, wpc, addKey, memory_delta,
                 res, logical, snap, net, last, shrunk>>

\* ------------------------------------------------------------- writer: add
\* Handle::add up to its loop: Single and Double assert the arity of `key`
AddBegin(key) ==
  /\ wpc = "idle"
  /\ nops < MaxOps
  /\ handle = "Many" => key = index
  /\ wpc' = IF KeyFits(handle, key) THEN "add" ELSE "fault"
  /\ addKey' = key
  /\ memory_delta' = 0
  /\ signed' = 0
  /\ ret' = NoRet
  /\ call' = [op |-> "add", key |-> key]
  /\ refDelta' = 0
  /\ UNCHANGED <<dpv, mirv, handle, index, maps, pub, oplog, wmeta, res, nops, logical,
                 snap, net, last, lastSet, shrunk>>

\* does the loop body panic on record r?  debug_assert!(r.len() >= cols) in a
\* build that keeps debug assertions (dbg), unreachable!() for BaseOperation,
\* and indexing the row past its end
RecordFaults(r, dbg) ==
  \/ r.tag = "BaseOperation"
  \/ dbg /\ Len(r.row) < cols
  \/ ~InRange(r.row, addKey)

\* memory_delta after record r: `memory_delta - r.deep_size_of() as usize;`
\* is an expression statement, its value is dropped
DeltaAfter(md, r) ==
  IF r.tag = "Positive" THEN md + DeepSizeOf(r.row) ELSE md

\* the signed sum of deep sizes: rows added minus rows removed
SignedAfter(sd, r) ==
  IF r.tag = "Positive" THEN sd + DeepSizeOf(r.row) ELSE sd - DeepSizeOf(r.row)

\* the sum of the deep sizes of the Positive rows
RefAfter(sd, r) == IF r.tag = "Positive" THEN sd + DeepSizeOf(r.row) ELSE sd

\* mutation: a Negative record inserts its row
RecordOpInserts(r, key) == InsertOp(Project(r.row, key), r.row)

\* mutation: the Double backend builds its pair in the opposite order
RecordOpDoubleSwaps(r, key) ==
  LET k == IF handle = "Double"
           THEN <<r.row[key[2] + 1], r.row[key[1] + 1]>>
           ELSE Project(r.row, key)
  IN IF r.tag = "Positive" THEN InsertOp(k, r.row) ELSE RemoveOp(k, r.row)

\* mutation: the key is built from the positions in ascending order
RecordOpSortsKey(r, key) ==
  LET sorted == IF Len(key) = 2 /\ key[1] > key[2] THEN <<key[2], key[1]>> ELSE key
      k == Project(r.row, sorted)
  IN IF r.tag = "Positive" THEN InsertOp(k, r.row) ELSE RemoveOp(k, r.row)

\* the evmap call the loop body makes for record r
RecordOp(r, key) ==
  IF r.tag = "Positive"
  THEN InsertOp(Project(r.row, key), r.row)
  ELSE RemoveOp(Project(r.row, key), r.row)

\* what record r means for the table: its row enters or leaves the bucket of
\* the key made of the row's values at the index columns
Meant(r, key) ==
  HistOp(IF r.tag = "Positive" THEN "insert" ELSE "remove",
         [i \in 1..Len(key) |-> r.row[key[i] + 1]], r.row)

\* mutation: add publishes after every record
AddRecordRefreshing(r, dbg) ==
  /\ wpc = "add"
  /\ nops < MaxOps
  /\ nops' = nops + 1
  /\ IF RecordFaults(r, dbg)
     THEN WriterFault /\ UNCHANGED <<memory_delta, signed, pub, refDelta>>
     ELSE /\ maps' = [maps EXCEPT ![pending].data = Apply(@, RecordOp(r, addKey)),
                                  ![pending].ready = TRUE]
          /\ pub' = pending
          /\ oplog' = Append(oplog, RecordOp(r, addKey))
          /\ logical' = Apply(logical, Meant(r, addKey))
          /\ net' = NetAfter(Meant(r, addKey))
          /\ last' = LastAfter(Meant(r, addKey))
          /\ shrunk' = ShrunkAfter(Meant(r, addKey))
          /\ memory_delta' = DeltaAfter(memory_delta, r)
          /\ signed' = SignedAfter(signed, r)
          /\ refDelta' = RefAfter(refDelta, r)
          /\ UNCHANGED <<wpc, ret>>
  /\ call' = [op |-> "record", rec |-> r]
  /\ UNCHANGED <<dpv, mirv, handle, index, wmeta, addKey, res, snap, lastSet>>

\* mutation: the operation of a record is logged ahead of the earlier ones
AddRecordLogsFirst(r, dbg) ==
  /\ wpc = "add"
  /\ nops < MaxOps
  /\ nops' = nops + 1
  /\ IF RecordFaults(r, dbg)
     THEN WriterFault /\ UNCHANGED <<memory_delta, signed, refDelta>>
     ELSE /\ maps' = [maps EXCEPT ![pending].data = Apply(@, RecordOp(r, addKey))]
          /\ oplog' = <<RecordOp(r, addKey)>> \o oplog
          /\ logical' = Apply(logical, Meant(r, addKey))
          /\ net' = NetAfter(Meant(r, addKey))
          /\ last' = LastAfter(Meant(r, addKey))
          /\ shrunk' = ShrunkAfter(Meant(r, addKey))
          /\ memory_delta' = DeltaAfter(memory_delta, r)
          /\ signed' = SignedAfter(signed, r)
          /\ refDelta' = RefAfter(refDelta, r)
          /\ UNCHANGED <<wpc, ret>>
  /\ call' = [op |-> "record", rec |-> r]
  /\ UNCHANGED <<dpv, mirv, handle, index, pub, wmeta, addKey, res, snap, lastSet>>

\* mutation: a BaseOperation record is skipped
AddRecordSkipsBase(r, dbg) ==
  /\ wpc = "add"
  /\ nops < MaxOps
  /\ nops' = nops + 1
  /\ IF r.tag = "BaseOperation"
     THEN UNCHANGED <<maps, oplog, logical, net, last, shrunk, memory_delta,
                      signed, refDelta, wpc, ret>>
     ELSE IF RecordFaults(r, dbg)
     THEN WriterFault /\ UNCHANGED <<memory_delta, signed, refDelta>>
     ELSE /\ Issue(RecordOp(r, addKey), Meant(r, addKey))
          /\ memory_delta' = DeltaAfter(memory_delta, r)
          /\ signed' = SignedAfter(signed, r)
          /\ refDelta' = RefAfter(refDelta, r)
          /\ UNCHANGED <<wpc, ret>>
  /\ call' = [op |-> "record", rec |-> r]
  /\ UNCHANGED <<dpv, mirv, handle, index, pub, wmeta, addKey, res, snap, lastSet>>

\* one iteration of the loop of Handle::add, on the next record of `rs`
AddRecord(r, dbg) ==
  /\ wpc = "add"
  /\ nops < MaxOps
  /\ nops' = nops + 1
  /\ IF RecordFaults(r, dbg)
     THEN WriterFault /\ UNCHANGED <<memory_delta, signed, refDelta>>
     ELSE /\ Issue(RecordOp(r, addKey), Meant(r, addKey))
          /\ memory_delta' = DeltaAfter(memory_delta, r)
          /\ signed' = SignedAfter(signed, r)
          /\ refDelta' = RefAfter(refDelta, r)
          /\ UNCHANGED <<wpc, ret>>
  /\ call' = [op |-> "record", rec |-> r]
  /\ UNCHANGED <<dpv, mirv, handle, index, pub, wmeta, addKey, res, snap, lastSet>>

\* mutation: add ends with a refresh
AddReturnRefreshing ==
  /\ wpc = "add"
  /\ wpc' = "idle"
  /\ ret' = [op |-> "add", val |-> memory_delta]
  /\ addKey' = <<>>
  /\ memory_delta' = 0
  /\ maps' = [maps EXCEPT ![pending].ready = TRUE, ![pending].meta = wmeta]
  /\ pub' = pending
  /\ call' = NoCall
  /\ UNCHANGED <<dpv, mirv, handle, index, oplog, wmeta, res, nops, logical, snap, signed, net,
                 last, lastSet, shrunk, refDelta>>

\* `rs` is exhausted: Handle::add returns memory_delta
AddReturn ==
  /\ wpc = "add"
  /\ wpc' = "idle"
  /\ ret' = [op |-> "add", val |-> memory_delta]
  /\ addKey' = <<>>
  /\ memory_delta' = 0
  /\ call' = NoCall
  /\ UNCHANGED <<dpv, mirv, handle, index, maps, pub, oplog, wmeta, res, nops, logical,
                 snap, signed, net, last, lastSet, shrunk, refDelta>>

\* --------------------------------------------------------- writer: refresh
\* mutation: refresh publishes the pending copy without attaching the meta
RefreshSwapKeepsMeta ==
  /\ wpc = "idle"
  /\ nops < MaxOps
  /\ nops' = nops + 1
  /\ maps' = [maps EXCEPT ![pending].ready = TRUE]
  /\ pub' = pending
  /\ wpc' = "refresh"
  /\ snap' = [ready |-> TRUE, meta |-> lastSet, data |-> logical]
  /\ ret' = NoRet
  /\ signed' = 0
  /\ call' = NoCall
  /\ refDelta' = 0
  /\ UNCHANGED <<dpv, mirv, handle, index, oplog, wmeta, addKey, memory_delta, res,
                 logical, net, last, lastSet, shrunk>>

\* mutation: refresh publishes and forgets the operations it has to replay
RefreshSwapDropsLog ==
  /\ wpc = "idle"
  /\ nops < MaxOps
  /\ nops' = nops + 1
  /\ maps' = [maps EXCEPT ![pending].ready = TRUE, ![pending].meta = wmeta]
  /\ pub' = pending
  /\ oplog' = <<>>
  /\ wpc' = "refresh"
  /\ snap' = [ready |-> TRUE, meta |-> lastSet, data |-> logical]
  /\ ret' = NoRet
  /\ signed' = 0
  /\ call' = NoCall
  /\ refDelta' = 0
  /\ UNCHANGED <<dpv, mirv, handle, index, wmeta, addKey, memory_delta, res,
                 logical, net, last, lastSet, shrunk>>

\* mutation: refresh swaps the copies and returns without replaying the log
RefreshSwapSkipsReplay ==
  /\ wpc = "idle"
  /\ nops < MaxOps
  /\ nops' = nops + 1
  /\ maps' = [maps EXCEPT ![pending].ready = TRUE, ![pending].meta = wmeta]
  /\ pub' = pending
  /\ oplog' = <<>>
  /\ snap' = [ready |-> TRUE, meta |-> lastSet, data |-> logical]
  /\ ret' = NoRet
  /\ signed' = 0
  /\ call' = NoCall
  /\ refDelta' = 0
  /\ UNCHANGED <<dpv, mirv, handle, index, wmeta, wpc, addKey, memory_delta, res,
                 logical, net, last, lastSet, shrunk>>

\* Handle::refresh, first half: the pending copy is published with the
\* writer's meta, atomically
RefreshSwap ==
  /\ wpc = "idle"
  /\ nops < MaxOps
  /\ nops' = nops + 1
  /\ maps' = [maps EXCEPT ![pending].ready = TRUE, ![pending].meta = wmeta]
  /\ pub' = pending
  /\ wpc' = "refresh"
  /\ snap' = [ready |-> TRUE, meta |-> lastSet, data |-> logical]
  /\ ret' = NoRet
  /\ signed' = 0
  /\ call' = NoCall
  /\ refDelta' = 0
  /\ UNCHANGED <<dpv, mirv, handle, index, oplog, wmeta, addKey, memory_delta, res,
                 logical, net, last, lastSet, shrunk>>

\* Handle::refresh, second half: the logged operations are replayed, one at a
\* time, onto the copy that is now pending
RefreshReplay ==
  /\ wpc = "refresh"
  /\ oplog # <<>>
  /\ maps' = [maps EXCEPT ![pending].data = Apply(@, Head(oplog))]
  /\ oplog' = Tail(oplog)
  /\ UNCHANGED <<dpv, mirv, handle, index, pub, wmeta, wpc, addKey, memory_delta,
                 ret, res, nops, logical, snap, signed, net, last, lastSet,
                 call, shrunk, refDelta>>

\* mutation: refresh returns before the log is replayed to its end
RefreshReturnEarly ==
  /\ wpc = "refresh"
  /\ maps' = [maps EXCEPT ![pending].ready = TRUE, ![pending].meta = wmeta]
  /\ oplog' = <<>>
  /\ wpc' = "idle"
  /\ UNCHANGED <<dpv, mirv, handle, index, pub, wmeta, addKey, memory_delta,
                 ret, res, nops, logical, snap, signed, net, last, lastSet,
                 call, shrunk, refDelta>>

\* Handle::refresh returns: both copies hold the same table again
RefreshReturn ==
  /\ wpc = "refresh"
  /\ oplog = <<>>
  /\ maps' = [maps EXCEPT ![pending].ready = TRUE, ![pending].meta = wmeta]
  /\ wpc' = "idle"
  /\ UNCHANGED <<dpv, mirv, handle, index, pub, oplog, wmeta, addKey, memory_delta,
                 ret, res, nops, logical, snap, signed, net, last, lastSet,
                 call, shrunk, refDelta>>

\* ------------------------------------------------------------------ readers
\* mutation: a map that was never refreshed answers with a miss
MetaGetAndMiss(inner, k, f) ==
  IF ~inner.ready THEN Some(<<None, inner.meta>>) ELSE evMetaGetAnd(inner, k, f)

\* mutation: a present key with an empty bucket answers with a miss
MetaGetAndEmptyIsMiss(inner, k, f) ==
  IF inner.ready /\ Has(inner.data, k) /\ inner.data[k] = <<>>
  THEN Some(<<None, inner.meta>>)
  ELSE evMetaGetAnd(inner, k, f)

\* Handle::meta_get_and on a copy of the table
MetaGetAnd(inner, k, f) == evMetaGetAnd(inner, k, f)

\* what a meta_get_and(k, f) returns in the current state
LookupNow(k, f) == MetaGetAnd(maps[pub], k, f)

\* a reader's meta_get_and(k, f); Single and Double assert the arity of k.
\* `of` records what the same lookup returns on the table of the last refresh
Lookup(rd, k, f) ==
  /\ res[rd].tag # "fault"
  /\ Offered(k)
  /\ res' = [res EXCEPT ![rd] =
               IF KeyFits(handle, k)
               THEN [tag |-> "ret", key |-> k, then |-> f, val |-> LookupNow(k, f),
                     of |-> evMetaGetAnd(snap, k, f)]
               ELSE FaultRes(k)]
  /\ UNCHANGED <<dpv, mirv, handle, index, maps, pub, oplog, wmeta, wpc, addKey,
                 memory_delta, ret, nops, logical, snap, signed, net, last,
                 lastSet, call, shrunk, refDelta>>

\* --------------------------------------------------------------------- spec
Next ==
  \/ \E k \in Keys : Clear(k)
  \/ \E k \in Keys : Empty(k)
  \/ \E v \in Metas : SetMeta(v)
  \/ \E key \in KeyColumns : AddBegin(key)
  \/ \E r \in Records, dbg \in BOOLEAN : AddRecord(r, dbg)
  \/ AddReturn
  \/ RefreshSwap
  \/ RefreshReplay
  \/ RefreshReturn
  \/ \E rd \in Readers, k \in Keys, f \in Thens : Lookup(rd, k, f)

Spec == Init /\ [][Next]_vars

\* ============================================================ DP aggregator
\* ops/grouped/dp_aggregate_unbounded.rs: the differentially-private COUNT
\* aggregator and the three counting mechanisms under it

\* diffs one aggregator is stepped with
MaxDiffs == 4

\* ------------------------------------------------------------------ numbers
\* a u32 is written [v, w] and stands for v + w * 2^32, with w = 0 and v >= 0
\* or w = 1 and v < 0; an f64 is written [v, w, n] and stands for
\* v + w * 2^32 + n, where n is the noise it has absorbed
U32(x) == [v |-> x, w |-> 0]

\* `element as u32`: a negative i64 wraps to element + 2^32
AsU32(element) == [v |-> element, w |-> IF element < 0 THEN 1 ELSE 0]

\* u32 `+=`: the sum, reduced modulo 2^32, and whether it overflowed
AddU32(a, b) ==
  LET v == a.v + b.v
      w == a.w + b.w
      fits == (w = 0 /\ v >= 0) \/ (w = 1 /\ v < 0)
  IN [overflow |-> ~fits,
      val |-> IF fits THEN [v |-> v, w |-> w] ELSE [v |-> v, w |-> w - 1]]

\* `value as f64`
AsF64(u) == [v |-> u.v, w |-> u.w, n |-> 0]

Zero == [v |-> 0, w |-> 0, n |-> 0]

\* a sample of the Laplace distribution
NoiseOf(x) == [v |-> 0, w |-> 0, n |-> x]

\* the samples the noise distributions are taken to return
Noise == {0, 1}

\* f64 `+`
AddF64(a, b) == [v |-> a.v + b.v, w |-> a.w + b.w, n |-> a.n + b.n]

\* "TODO: better default value to indicate error"
ErrorDefault == 1000

\* `((t_prime & -t_prime) as f64).log2() as u32`: the lowest nonzero bit of t
RECURSIVE LowBit(_)
LowBit(t) == IF t % 2 = 1 THEN 0 ELSE 1 + LowBit(t \div 2)

\* `t.log2().floor() == t.log2().ceil()`: t is a power of two
RECURSIVE IsPow2(_)
IsPow2(t) == t = 1 \/ (t % 2 = 0 /\ IsPow2(t \div 2))

\* the positions of the '1' characters of the reversed binary form of t
OneBits(t) == {j \in 0..t : (t \div (2 ^ j)) % 2 = 1}

\* the outcome of a step that panicked
Panic(m) == [fault |-> TRUE, msg |-> m]
UnwrapNone == "called Option::unwrap() on a None value"
AddOverflow == "attempt to add with overflow"

\* --------------------------------------------------------- BinaryMechanism
\* BinaryMechanism::new
BinaryNew(T) ==
  [alphas |-> None, noisy_alphas |-> None, T |-> T, t |-> 1,
   noise_distr |-> None, rng |-> None, prev_output |-> Zero]

\* BinaryMechanism::set_noise_distr
BinarySetNoiseDistr(b) ==
  [b EXCEPT !.noise_distr = Some("Laplace"), !.rng = Some("Rng")]

\* BinaryMechanism::initialize_psums
BinaryInitializePsums(b) ==
  [b EXCEPT !.alphas = Some(<<>>), !.noisy_alphas = Some(<<>>)]

\* the loop that builds the new psum: for j in 0..i, value += alphas[j] (the
\* error default where there is none) and alphas[i] = value.  ovf says
\* whether the build checks arithmetic overflow
RECURSIVE NewPsum(_, _, _, _, _)
NewPsum(alphas, value, j, i, ovf) ==
  IF j >= i THEN [fault |-> FALSE, alphas |-> alphas, value |-> value]
  ELSE LET a == IF Has(alphas, j) THEN alphas ELSE Put(alphas, j, U32(ErrorDefault))
           sum == AddU32(value, a[j])
       IN IF sum.overflow /\ ovf THEN Panic(AddOverflow)
          ELSE NewPsum(Put(a, i, sum.val), sum.val, j + 1, i, ovf)

\* a map without the keys below i
Above(m, i) == [j \in {x \in DOMAIN m : x >= i} |-> m[j]]

\* a map with the error default under the keys of S it lacks
Defaulted(m, S) ==
  [j \in (DOMAIN m) \cup S |-> IF j \in DOMAIN m THEN m[j] ELSE AsF64(U32(ErrorDefault))]

\* the sum of the entries of m under the keys of S
RECURSIVE SumOver(_, _)
SumOver(m, S) ==
  IF S = {} THEN Zero
  ELSE LET j == CHOOSE x \in S : TRUE
       IN AddF64(m[j], SumOver(m, S \ {j}))

\* BinaryMechanism::step_forward
BinaryStepForward(b, element, noise, ovf) ==
  IF b.t > b.T THEN [fault |-> FALSE, b |-> b, out |-> b.prev_output]
  ELSE
    LET i == LowBit(b.t)
    IN IF i > 0 /\ b.alphas.tag = "None" THEN Panic(UnwrapNone)
       ELSE
         LET loop == IF i = 0
                     THEN [fault |-> FALSE, alphas |-> <<>>, value |-> AsU32(element)]
                     ELSE NewPsum(b.alphas.val, AsU32(element), 0, i, ovf)
         IN IF loop.fault THEN loop
            ELSE IF i > 0 /\ b.noisy_alphas.tag = "None" THEN Panic(UnwrapNone)
            ELSE IF b.noise_distr.tag = "None" \/ b.rng.tag = "None"
                 THEN Panic(UnwrapNone)
            ELSE IF b.noisy_alphas.tag = "None" THEN Panic(UnwrapNone)
            ELSE
              LET noisy == Put(Above(b.noisy_alphas.val, i), i,
                               AddF64(AsF64(loop.value), NoiseOf(noise)))
                  read == Defaulted(noisy, OneBits(b.t))
                  output == SumOver(read, OneBits(b.t))
              IN [fault |-> FALSE,
                  b |-> [b EXCEPT
                           !.alphas = IF i = 0 THEN @ ELSE Some(Above(loop.alphas, i)),
                           !.noisy_alphas = Some(read),
                           !.t = @ + 1,
                           !.prev_output = output],
                  out |-> output]

\* ---------------------------------------------------- LogarithmicMechanism
\* LogarithmicMechanism::new
LogarithmicNew ==
  [beta |-> Zero, t |-> 1, prev_output |-> Zero, noise_distr |-> None, rng |-> None]

\* LogarithmicMechanism::set_noise_distr
LogarithmicSetNoiseDistr(l) ==
  [l EXCEPT !.noise_distr = Some("Laplace"), !.rng = Some("Rng")]

\* LogarithmicMechanism::step_forward
LogarithmicStepForward(l, element, noise) ==
  LET beta == AddF64(l.beta, AsF64(AsU32(element)))
  IN IF ~IsPow2(l.t)
     THEN [fault |-> FALSE, l |-> [l EXCEPT !.beta = beta, !.t = @ + 1],
           out |-> l.prev_output]
     ELSE IF l.noise_distr.tag = "None" \/ l.rng.tag = "None" THEN Panic(UnwrapNone)
     ELSE LET noised == AddF64(beta, NoiseOf(noise))
          IN [fault |-> FALSE,
              l |-> [l EXCEPT !.beta = noised, !.prev_output = noised, !.t = @ + 1],
              out |-> noised]

\* ---------------------------------------------------------- HybridMechanism
\* the window of the binary mechanism a hybrid mechanism starts with
FirstWindow == 2

\* HybridMechanism::new
HybridNew == [l |-> LogarithmicNew, b |-> BinaryNew(FirstWindow), t |-> 1]

\* HybridMechanism::step_forward; nl and nb are the samples the two
\* mechanisms draw if they draw one
HybridStepForward(h, element, nl, nb, ovf) ==
  LET lr == LogarithmicStepForward(h.l, element, nl)
  IN IF lr.fault THEN lr
     ELSE IF h.t > 1 /\ IsPow2(h.t)
     THEN [fault |-> FALSE,
           h |-> [l |-> lr.l, b |-> BinaryNew(h.t), t |-> h.t + 1],
           out |-> lr.out]
     ELSE IF h.t > 1
     THEN LET br == BinaryStepForward(h.b, element, nb, ovf)
          IN IF br.fault THEN br
             ELSE [fault |-> FALSE,
                   h |-> [l |-> lr.l, b |-> br.b, t |-> h.t + 1],
                   out |-> AddF64(lr.out, br.out)]
     ELSE [fault |-> FALSE, h |-> [l |-> lr.l, b |-> h.b, t |-> h.t + 1],
           out |-> lr.out]

\* ------------------------------------------------------------- DpAggregator
\* the columns and group-by lists an aggregator is configured with, the
\* widths of its parent, the groups of its input and the batches of records
\* (TRUE for a positive record) that reach one group in one input
Columns == 0..2
GroupBys == {<<0>>, <<0, 2>>, <<2, 1>>}
Widths == {2, 3}
Groups == {1, 2}
Batches == {<<TRUE>>, <<FALSE>>, <<TRUE, TRUE>>, <<FALSE, TRUE>>, <<TRUE, FALSE>>}

GroupByMsg == "cannot group by aggregation column"
NoColumnMsg == "cannot aggregate over non-existing column"

\* mutation: only the first group-by column is compared with `over`
OverChecksFirst(over, group_by) ==
  /\ agg.stage = "none"
  /\ agg' = IF group_by[1] = over
            THEN [stage |-> "fault", msg |-> GroupByMsg]
            ELSE [stage |-> "built", msg |-> "", op |-> "COUNT", over |-> over,
                  group |-> group_by, counter |-> HybridNew]
  /\ seen' = [seen EXCEPT !.op = "over", !.over = over, !.group_by = group_by]
  /\ UNCHANGED <<view, bin, fed, blv, mirv>>

\* DpAggregation::over
Over(over, group_by) ==
  /\ agg.stage = "none"
  /\ agg' = IF \E i \in 1..Len(group_by) : group_by[i] = over
            THEN [stage |-> "fault", msg |-> GroupByMsg]
            ELSE [stage |-> "built", msg |-> "", op |-> "COUNT", over |-> over,
                  group |-> group_by, counter |-> HybridNew]
  /\ seen' = [seen EXCEPT !.op = "over", !.over = over, !.group_by = group_by]
  /\ UNCHANGED <<view, bin, fed, blv, mirv>>

\* DpAggregator::setup, with a parent of `fields` columns
Setup(fields) ==
  /\ agg.stage = "built"
  /\ agg' = IF ~(agg.over < fields)
            THEN [agg EXCEPT !.stage = "fault", !.msg = NoColumnMsg]
            ELSE [agg EXCEPT
                    !.stage = "ready",
                    !.counter.l = LogarithmicSetNoiseDistr(@),
                    !.counter.b = BinaryInitializePsums(BinarySetNoiseDistr(@))]
  /\ seen' = [seen EXCEPT !.op = "setup"]
  /\ UNCHANGED <<view, bin, fed, blv, mirv>>

\* DpAggregator::to_diff
ToDiff(pos) == IF pos THEN 1 ELSE -1

\* DpAggregator::apply: every diff steps the counter, the last output is the
\* new value of the group; ns holds the samples of each step
RECURSIVE StepEach(_, _, _, _, _)
StepEach(counter, diffs, ns, ovf, out) ==
  IF diffs = <<>> THEN [fault |-> FALSE, counter |-> counter, out |-> out]
  ELSE LET r == HybridStepForward(counter, Head(diffs), Head(ns)[1], Head(ns)[2], ovf)
       IN IF r.fault THEN r
          ELSE StepEach(r.h, Tail(diffs), Tail(ns), ovf, r.out)

DpApply(counter, diffs, ns, ovf) ==
  IF diffs = <<>> THEN Panic(UnwrapNone)
  ELSE StepEach(counter, diffs, ns, ovf, Zero)

\* the rows the grouped operator emits for a group whose value is now `new`:
\* the previous row of the group, if there is one, is revoked first
Emit(state, g, new) ==
  IF Has(state, g)
  THEN <<[tag |-> "Negative", row |-> <<g, state[g]>>],
         [tag |-> "Positive", row |-> <<g, new>>]>>
  ELSE <<[tag |-> "Positive", row |-> <<g, new>>]>>

\* the sum of a sequence of diffs
RECURSIVE SumDiffs(_)
SumDiffs(ds) == IF ds = <<>> THEN 0 ELSE Head(ds) + SumDiffs(Tail(ds))

\* one group of an input of the operator: the records of group g become
\* diffs, apply computes the new value, the rows are emitted
OnInput(g, batch, ns, ovf) ==
  /\ agg.stage = "ready"
  /\ seen.diffs + Len(batch) <= MaxDiffs
  /\ LET diffs == [i \in 1..Len(batch) |-> ToDiff(batch[i])]
         r == DpApply(agg.counter, diffs, ns, ovf)
     IN /\ IF r.fault
           THEN /\ agg' = [agg EXCEPT !.stage = "fault", !.msg = r.msg]
                /\ view' = [view EXCEPT !.out = <<>>]
           ELSE /\ agg' = [agg EXCEPT !.counter = r.counter]
                /\ view' = [state |-> Put(view.state, g, r.out),
                            out |-> Emit(view.state, g, r.out)]
        /\ seen' = [seen EXCEPT
                      !.op = "input",
                      !.diffs = @ + Len(batch),
                      !.true = Put(@, g, Count(@, g) + SumDiffs(diffs)),
                      !.negs = @ + Cardinality({i \in 1..Len(batch) : ~batch[i]}),
                      !.g = g,
                      !.batch = batch,
                      !.prev = view.state]
  /\ UNCHANGED <<bin, fed, blv, mirv>>

\* the aggregator alone: the store is left as it was created
DpInit ==
  /\ handle = "Single"
  /\ index = <<0>>
  /\ maps = [i \in 0..1 |-> EmptyInner]
  /\ pub = 0
  /\ oplog = <<>>
  /\ wmeta = InitMeta
  /\ wpc = "idle"
  /\ addKey = <<>>
  /\ memory_delta = 0
  /\ ret = NoRet
  /\ res = [rd \in Readers |-> NoRes]
  /\ nops = 0
  /\ logical = <<>>
  /\ snap = EmptyInner
  /\ signed = 0
  /\ net = <<>>
  /\ last = <<>>
  /\ lastSet = InitMeta
  /\ call = NoCall
  /\ shrunk = {}
  /\ refDelta = 0
  /\ agg = NoAgg
  /\ view = NoView
  /\ seen = NoInput
  /\ bin = NoBin
  /\ fed = NoFed
  /\ conv = NewConverter
  /\ mq = NoMq
  /\ asked = NoAsk

DpNext ==
  \/ \E over \in Columns, group_by \in GroupBys : Over(over, group_by)
  \/ \E fields \in Widths : Setup(fields)
  \/ \E g \in Groups, batch \in Batches, ovf \in BOOLEAN :
       \E ns \in [1..Len(batch) -> Noise \X Noise] : OnInput(g, batch, ns, ovf)

SpecDp == DpInit /\ [][DpNext]_vars

\* ------------------------------------------------ a BinaryMechanism alone
\* the windows a BinaryMechanism is constructed with and the elements it is
\* stepped with
Windows == {2, 4}
Elements == {1, -1}

\* BinaryMechanism::new(T, e)
BinNew(T) ==
  /\ bin.stage = "none"
  /\ bin' = [stage |-> "live", msg |-> "", m |-> BinaryNew(T)]
  /\ UNCHANGED <<fed, agg, view, seen, blv, mirv>>

\* BinaryMechanism::set_noise_distr, before the first step
BinSetNoiseDistr ==
  /\ bin.stage = "live"
  /\ fed.elements = <<>>
  /\ bin' = [bin EXCEPT !.m = BinarySetNoiseDistr(@)]
  /\ UNCHANGED <<fed, agg, view, seen, blv, mirv>>

\* BinaryMechanism::initialize_psums, before the first step
BinInitializePsums ==
  /\ bin.stage = "live"
  /\ fed.elements = <<>>
  /\ bin' = [bin EXCEPT !.m = BinaryInitializePsums(@)]
  /\ UNCHANGED <<fed, agg, view, seen, blv, mirv>>

\* does the step of mechanism b read an entry that is not there, so that
\* or_insert supplies the error default?
ReadsDefault(b) ==
  LET i == LowBit(b.t)
  IN \/ \E j \in 0..(i - 1) : ~Has(b.alphas.val, j)
     \/ \E j \in OneBits(b.t) : j # i /\ ~Has(b.noisy_alphas.val, j)

\* BinaryMechanism::step_forward(element) within the window
BinStepForward(element, noise, ovf) ==
  /\ bin.stage = "live"
  /\ bin.m.t <= bin.m.T
  /\ LET r == BinaryStepForward(bin.m, element, noise, ovf)
     IN IF r.fault
        THEN /\ bin' = [bin EXCEPT !.stage = "fault", !.msg = r.msg]
             /\ UNCHANGED fed
        ELSE /\ bin' = [bin EXCEPT !.m = r.b]
             /\ fed' = [elements |-> Append(fed.elements, element),
                        defaulted |-> fed.defaulted \/ ReadsDefault(bin.m)]
  /\ UNCHANGED <<agg, view, seen, blv, mirv>>

\* BinaryMechanism::step_forward(element) past the window: the previous
\* output is returned and nothing changes
BinStepPastWindow ==
  /\ bin.stage = "live"
  /\ bin.m.t > bin.m.T
  /\ BinaryStepForward(bin.m, 1, 0, FALSE).b = bin.m
  /\ UNCHANGED vars

BinInit ==
  /\ DpInit

BinNext ==
  \/ \E T \in Windows : BinNew(T)
  \/ BinSetNoiseDistr
  \/ BinInitializePsums
  \/ \E element \in Elements, noise \in Noise, ovf \in BOOLEAN :
       BinStepForward(element, noise, ovf)
  \/ BinStepPastWindow

SpecBin == BinInit /\ [][BinNext]_vars

\* ====================================================== SQL to MIR converter
\* SqlToMirConverter (src/sql/mir.rs).  Names are numbers ordered the way the
\* strings sort; every table has one schema; a node is the pair of what made
\* it and the name or position it was made for, and a node has a child once
\* add_child was called on it.

Versions == 0..1
Tables == 1..3
Queries == {4}
SqlQueries == {"CreateTable", "Insert", "Select"}
EdgeKinds == {"Join", "LeftJoin", "GroupBy"}

\* query graphs: relations, and edges keyed by (src, dst), at most one edge
\* between two relations, every edge between relations of the graph
EdgeKeys ==
  {ps \in SUBSET {p \in Tables \X Tables : p[1] # p[2]} :
     \A p \in ps : <<p[2], p[1]>> \notin ps}
EdgesOf(ps, k) == {[src |-> p[1], dst |-> p[2], kind |-> k] : p \in ps}
QueryGraphs ==
  UNION {{[relations |-> rels, edges |-> EdgesOf(ps, k)] :
            rels \in {r \in SUBSET Tables :
                        r # {} /\ \A p \in ps : p[1] \in r /\ p[2] \in r}} :
         <<ps, k>> \in EdgeKeys \X EdgeKinds}

\* sort_by_key on the source table over the hash map's iteration order: any
\* order of the edges in which the sources do not decrease
SortedEdges(qg) ==
  {o \in [1..Cardinality(qg.edges) -> qg.edges] :
     \A i, j \in 1..Cardinality(qg.edges) :
       i < j => o[i] # o[j] /\ o[i].src <= o[j].src}

UnknownBaseMsg == "Query refers to unknown base node"
NotImplementedMsg == "not implemented"
UnreachableMsg == "internal error: entered unreachable code"
NotBaseMsg == "expected base-yielding query!"
NameMsg == "assertion failed: name == table.name"
VersionMsg == "assertion failed: new_version > self.schema_version"
OneRelMsg == "assertion failed: sorted_rels.len() == 1"
OneLeafMsg == "assertion failed: leaves.len() == 1"

ReuseNode(rel) == <<"reuse", rel>>
JoinNode(k) == <<"join", k>>
LeafNode(name) == <<"leaf", name>>
BaseNode(name) == <<"base", name>>

\* upgrade_schema asserting new_version >= schema_version
UpgradeSchemaAllowsEqual(new_version) ==
  /\ mq.tag # "panic"
  /\ asked' = [op |-> "upgrade_schema", was |-> conv.schema_version,
               new_version |-> new_version]
  /\ IF new_version >= conv.schema_version
     THEN /\ conv' = [conv EXCEPT !.schema_version = new_version]
          /\ mq' = [tag |-> "unit"]
     ELSE /\ mq' = [tag |-> "panic", msg |-> VersionMsg]
          /\ UNCHANGED conv
  /\ UNCHANGED <<dpv, blv>>

UpgradeSchema(new_version) ==
  /\ mq.tag # "panic"
  /\ asked' = [op |-> "upgrade_schema", was |-> conv.schema_version,
               new_version |-> new_version]
  /\ IF new_version > conv.schema_version
     THEN /\ conv' = [conv EXCEPT !.schema_version = new_version]
          /\ mq' = [tag |-> "unit"]
     ELSE /\ mq' = [tag |-> "panic", msg |-> VersionMsg]
          /\ UNCHANGED conv
  /\ UNCHANGED <<dpv, blv>>

\* the set of (name, version) pairs base_schemas holds after make_base_node
MakeBaseNode(c, name) ==
  IF \E sv \in Versions : <<name, sv>> \in c.base_schemas
  THEN c.base_schemas
  ELSE c.base_schemas \cup {<<name, c.schema_version>>}

NamedBaseToMir(name, query, table) ==
  /\ mq.tag # "panic"
  /\ asked' = [op |-> "named_base_to_mir", was |-> conv.schema_version,
               name |-> name]
  /\ IF query = "Select"
     THEN mq' = [tag |-> "panic", msg |-> NotBaseMsg] /\ UNCHANGED conv
     ELSE IF name # table
     THEN mq' = [tag |-> "panic", msg |-> NameMsg] /\ UNCHANGED conv
     ELSE /\ conv' = [conv EXCEPT
                        !.base_schemas = MakeBaseNode(conv, name),
                        !.nodes = @ \cup {<<name, conv.schema_version>>}]
          /\ mq' = [tag |-> "ret", name |-> name, roots |-> {BaseNode(name)},
                    leaf |-> BaseNode(name), leaves |-> {BaseNode(name)}]
  /\ UNCHANGED <<dpv, blv>>

NoJoins ==
  [fault |-> FALSE, msg |-> "", join_nodes |-> <<>>, prev_node |-> None,
   joined_tables |-> {}, parents |-> {}]

\* one turn of the loop over the sorted edges
JoinEdge(st, e) ==
  IF e.kind = "LeftJoin" THEN Panic(NotImplementedMsg)
  ELSE IF e.kind = "GroupBy" THEN st
  ELSE IF e.src \in st.joined_tables /\ e.dst \in st.joined_tables
  THEN Panic(UnreachableMsg)
  ELSE IF (e.src \in st.joined_tables \/ e.dst \in st.joined_tables)
          /\ st.prev_node.tag = "None"
  THEN Panic(UnwrapNone)
  ELSE LET left == IF e.src \in st.joined_tables
                   THEN st.prev_node.val ELSE ReuseNode(e.src)
           right == IF e.src \notin st.joined_tables
                       /\ e.dst \in st.joined_tables
                    THEN st.prev_node.val ELSE ReuseNode(e.dst)
           jn == JoinNode(Len(st.join_nodes) + 1)
       IN [st EXCEPT !.join_nodes = Append(@, jn),
                     !.prev_node = Some(jn),
                     !.joined_tables = @ \cup {e.src, e.dst},
                     !.parents = @ \cup {left, right}]

RECURSIVE GenerateJoins(_, _, _)
GenerateJoins(sorted_edges, i, st) ==
  IF st.fault \/ i > Len(sorted_edges) THEN st
  ELSE GenerateJoins(sorted_edges, i + 1, JoinEdge(st, sorted_edges[i]))

MakeNodesForSelection(c, name, qg, sorted_edges) ==
  IF \E rel \in qg.relations : <<rel, c.schema_version>> \notin c.nodes
  THEN Panic(UnknownBaseMsg)
  ELSE LET j == GenerateJoins(sorted_edges, 1, NoJoins)
       IN IF j.fault THEN j
          ELSE IF j.join_nodes = <<>> /\ Cardinality(qg.relations) # 1
          THEN Panic(OneRelMsg)
          ELSE LET final_node ==
                     IF j.join_nodes # <<>>
                     THEN j.join_nodes[Len(j.join_nodes)]
                     ELSE ReuseNode(CHOOSE rel \in qg.relations : TRUE)
                   base_nodes == {ReuseNode(rel) : rel \in qg.relations}
               IN [fault |-> FALSE, msg |-> "",
                   nodes_added |->
                     base_nodes
                       \cup {j.join_nodes[k] : k \in 1..Len(j.join_nodes)}
                       \cup {LeafNode(name)},
                   roots |-> base_nodes,
                   parents |-> j.parents \cup {final_node}]

NamedQueryToMir(name, qg, sorted_edges) ==
  /\ mq.tag # "panic"
  /\ asked' = [op |-> "named_query_to_mir", was |-> conv.schema_version,
               name |-> name, qg |-> qg, sorted_edges |-> sorted_edges,
               known |-> \A rel \in qg.relations :
                           <<rel, conv.schema_version>> \in conv.nodes]
  /\ LET r == MakeNodesForSelection(conv, name, qg, sorted_edges)
     IN IF r.fault
        THEN mq' = [tag |-> "panic", msg |-> r.msg] /\ UNCHANGED conv
        ELSE /\ conv' = [conv EXCEPT
                           !.nodes = @ \cup {<<name, conv.schema_version>>}]
             /\ LET leaves == r.nodes_added \ r.parents
                IN IF Cardinality(leaves) # 1
                   THEN mq' = [tag |-> "panic", msg |-> OneLeafMsg]
                   ELSE mq' = [tag |-> "ret", name |-> name,
                               roots |-> r.roots,
                               leaf |-> CHOOSE n \in leaves : TRUE,
                               leaves |-> leaves]
  /\ UNCHANGED <<dpv, blv>>

MirInit ==
  /\ DpInit

MirNext ==
  \/ \E new_version \in Versions : UpgradeSchema(new_version)
  \/ \E name \in Tables, query \in SqlQueries, table \in Tables :
       NamedBaseToMir(name, query, table)
  \/ \E name \in Queries, qg \in QueryGraphs :
       \E sorted_edges \in SortedEdges(qg) :
         NamedQueryToMir(name, qg, sorted_edges)

SpecMir == MirInit /\ [][MirNext]_vars

\* ------------------------------------------------------------- properties
\* every operation issued so far has been published by a refresh
PublishedAll == snap.ready /\ (wpc = "refresh" \/ oplog = <<>>)

\* what every lookup returns in the current state
Visible == [k \in Keys |-> [f \in Thens |-> LookupNow(k, f)]]

\* the step is the publishing half of a refresh
IsRefreshSwap == wpc = "idle" /\ wpc' = "refresh"

\* C1: every lookup returns what the same lookup returns on the table and meta
\* as they stood at a completed refresh, the last one before the lookup: never
\* a table holding part of an add batch or part of the operations issued
\* between two refreshes
C1_ReadsSeeRefreshedState ==
  \A rd \in Readers : res[rd].tag = "ret" => res[rd].val = res[rd].of

\* a reader holds a populated bucket read from the published copy while the
\* writer is inside an add batch that has already changed that bucket
C1_Witness ==
  \E rd \in Readers :
    /\ res[rd].tag = "ret"
    /\ res[rd].then = "identity"
    /\ wpc = "add"
    /\ oplog # <<>>
    /\ Has(logical, res[rd].key)
    /\ res[rd].val = LookupNow(res[rd].key, "identity")
    /\ res[rd].val.tag = "Some"
    /\ res[rd].val.val[1].tag = "Some"
    /\ res[rd].val.val[1].val # logical[res[rd].key]

\* C2: a step of the writer other than the publishing half of a refresh, and
\* in particular every step of add, clear and empty, leaves the result of
\* every lookup of every key unchanged
C2_NoEffectBeforeRefresh ==
  [][~IsRefreshSwap => Visible' = Visible]_vars

\* after a refresh the writer has issued operations that changed the table,
\* and a reader's lookup still returns the refreshed state
C2_Witness ==
  \E rd \in Readers :
    /\ snap.ready
    /\ wpc \in {"idle", "add"}
    /\ oplog # <<>>
    /\ logical # snap.data
    /\ res[rd].tag = "ret"
    /\ res[rd].val.tag = "Some"
    /\ res[rd].val = LookupNow(res[rd].key, res[rd].then)

\* C3: before the first refresh every lookup of every key returns None
C3_NoneBeforeFirstRefresh ==
  ~snap.ready =>
    /\ \A k \in Keys, f \in Thens : LookupNow(k, f) = None
    /\ \A rd \in Readers : res[rd].tag = "ret" => res[rd].val = None

\* no refresh yet, the writer has changed the table and the meta, and a reader
\* got None
C3_Witness ==
  \E rd \in Readers :
    /\ ~snap.ready
    /\ oplog # <<>>
    /\ wmeta # InitMeta
    /\ res[rd].tag = "ret"
    /\ res[rd].val = None

\* C4: once a refresh has occurred every lookup returns Some((result, meta)),
\* with result None exactly when the key is absent from the published copy and
\* Some(transform(bucket)) when it is present, an empty bucket included
C4_SomeAfterFirstRefresh ==
  snap.ready =>
    \A k \in Keys, f \in Thens :
      LookupNow(k, f) =
        Some(<<IF Has(maps[pub].data, k)
               THEN Some(ApplyThen(f, maps[pub].data[k]))
               ELSE None,
               maps[pub].meta>>)

\* a reader counted zero rows for a key that is present with an empty bucket
C4_Witness ==
  \E rd \in Readers :
    /\ snap.ready
    /\ res[rd].tag = "ret"
    /\ res[rd].then = "count_rows"
    /\ Has(maps[pub].data, res[rd].key)
    /\ maps[pub].data[res[rd].key] = <<>>
    /\ res[rd].val = Some(<<Some(0), maps[pub].meta>>)

C6_RemovedLastStaysPresent ==
  \A k \in DOMAIN last, f \in Thens :
    (PublishedAll /\ last[k] = "removed_last") =>
      LookupNow(k, f) = Some(<<Some(ApplyThen(f, <<>>)), snap.meta>>)

\* C7: applying a Negative record whose row matches no row of its key's
\* bucket (the key absent included), when add issues it and when refresh
\* replays it, changes neither copy of the table and does not fault; no
\* full-width Negative record makes add fault
C7_UnmatchedRemoveIsNoOp ==
  [][/\ (\/ /\ wpc = "add"
            /\ Len(oplog') = Len(oplog) + 1
            /\ oplog'[Len(oplog')].op = "remove"
            /\ ~Matches(maps[pending].data, oplog'[Len(oplog')])
         \/ /\ wpc = "refresh"
            /\ oplog # <<>>
            /\ oplog' = Tail(oplog)
            /\ Head(oplog).op = "remove"
            /\ ~Matches(maps[pending].data, Head(oplog)))
        => /\ maps'[0].data = maps[0].data
           /\ maps'[1].data = maps[1].data
           /\ wpc' = wpc
     /\ wpc = "add" =>
          \A r \in Records :
            (r.tag = "Negative" /\ Len(r.row) >= cols) => ~RecordFaults(r, TRUE)
    ]_vars

\* add has just applied a Negative record that matched no row of a populated
\* bucket
C7_Witness ==
  /\ wpc = "add"
  /\ oplog # <<>>
  /\ LET o == oplog[Len(oplog)]
     IN /\ o.op = "remove"
        /\ Has(maps[pending].data, o.key)
        /\ maps[pending].data[o.key] # <<>>
        /\ ~Matches(maps[pending].data, o)
        /\ o.key \in DOMAIN last
        /\ last[o.key] = "insert"

\* C8: add returns the signed net memory delta of its batch: the deep sizes
\* of the Positive rows minus the deep sizes of the Negative rows
C8_SignedDelta == ret.op = "add" => ret.val = signed

\* C9: when empty(k) was the last operation on k, after refresh k is absent:
\* every lookup of k returns Some((None, meta))
C9_EmptyMakesAbsent ==
  \A k \in DOMAIN last, f \in Thens :
    (PublishedAll /\ last[k] = "empty") =>
      LookupNow(k, f) = Some(<<None, snap.meta>>)

\* refresh is replaying an empty(k) onto a copy in which k still holds rows,
\* and a reader already got a miss for k
C9_Witness ==
  \E rd \in Readers :
    /\ wpc = "refresh"
    /\ res[rd].tag = "ret"
    /\ res[rd].key \in DOMAIN last
    /\ last[res[rd].key] = "empty"
    /\ Has(maps[pending].data, res[rd].key)
    /\ maps[pending].data[res[rd].key] # <<>>
    /\ res[rd].val = Some(<<None, snap.meta>>)

\* C10: when clear(k) was the last operation on k, after refresh k is present
\* with zero rows: lookup(k, f) returns Some((Some(f([])), meta))
C10_ClearMakesEmpty ==
  \A k \in DOMAIN last, f \in Thens :
    (PublishedAll /\ last[k] = "clear") =>
      LookupNow(k, f) = Some(<<Some(ApplyThen(f, <<>>)), snap.meta>>)

\* refresh is replaying a clear(k) onto a copy in which k still holds rows,
\* and a reader already got the empty bucket of k
C10_Witness ==
  \E rd \in Readers :
    /\ wpc = "refresh"
    /\ res[rd].tag = "ret"
    /\ res[rd].then = "identity"
    /\ res[rd].key \in DOMAIN last
    /\ last[res[rd].key] = "clear"
    /\ Has(maps[pending].data, res[rd].key)
    /\ maps[pending].data[res[rd].key] # <<>>
    /\ res[rd].val = Some(<<Some(<<>>), snap.meta>>)

\* C11: a set_meta call returns the argument of the most recent earlier
\* set_meta, or the initial meta when there was none, whatever the writer did
\* in between
C11_SetMetaReturnsPrevious ==
  [][(nops' = nops + 1 /\ ret'.op = "set_meta") => ret'.val = lastSet]_vars

\* set_meta(1), a refresh, then set_meta(2) returned 1
C11_Witness ==
  /\ ret.op = "set_meta"
  /\ ret.val = 1
  /\ lastSet = 2
  /\ snap.ready
  /\ snap.meta = 1

\* C12: once a refresh has occurred, every lookup of every key reports the
\* meta that the last set_meta before the last refresh passed, whatever the
\* writer is doing to the buckets
C12_MetaOfLastRefresh ==
  snap.ready =>
    \A k \in Keys, f \in Thens :
      /\ LookupNow(k, f).tag = "Some"
      /\ LookupNow(k, f).val[2] = snap.meta

\* after set_meta(v) and a refresh the writer is inside an add batch that has
\* changed the pending copy, and a reader's lookup reported meta v
C12_Witness ==
  \E rd \in Readers :
    /\ snap.ready
    /\ snap.meta \in Metas
    /\ wpc = "add"
    /\ oplog # <<>>
    /\ res[rd].tag = "ret"
    /\ res[rd].val = LookupNow(res[rd].key, res[rd].then)
    /\ res[rd].val.tag = "Some"
    /\ res[rd].val.val[2] = snap.meta

\* C13: the published copy carries the table and the meta of one and the same
\* refresh, the last one, and a lookup returns the bucket and the meta of the
\* refresh it read: never a meta that was set but not refreshed
C13_MetaPairsWithSnapshot ==
  /\ snap.ready => (maps[pub].meta = snap.meta /\ maps[pub].data = snap.data)
  /\ \A rd \in Readers :
       (res[rd].tag = "ret" /\ res[rd].val.tag = "Some") =>
         /\ res[rd].of.tag = "Some"
         /\ res[rd].val.val[2] = res[rd].of.val[2]

\* a reader got a populated bucket with the meta of the refresh that published
\* it, while the writer has already set another meta
C13_Witness ==
  \E rd \in Readers :
    /\ snap.ready
    /\ wmeta # snap.meta
    /\ res[rd].tag = "ret"
    /\ res[rd].then = "identity"
    /\ res[rd].val.tag = "Some"
    /\ res[rd].val.val[1].tag = "Some"
    /\ res[rd].val.val[1].val # <<>>
    /\ res[rd].val.val[2] = snap.meta

\* what a store returns according to the histories, which are computed from
\* the operations alone and never look at the backend
Reference ==
  /\ \A k \in Keys, f \in Thens :
       Len(k) = Len(index) => LookupNow(k, f) = evMetaGetAnd(snap, k, f)
  /\ wpc = "add" => memory_delta = refDelta
  /\ ret.op = "add" => ret.val = refDelta

\* C14: on each of Single, Double, Many over one column and Many over two
\* columns, every lookup of a key of the store's arity, every set_meta return
\* value and every add memory delta is the one the backend-independent
\* histories give, so the backends agree with one another
C14_BackendsAgree ==
  /\ Reference
  /\ [][/\ Reference'
        /\ (nops' = nops + 1 /\ ret'.op = "set_meta") => ret'.val = lastSet
       ]_vars

\* a Many store over two columns returned to a reader the row a batch filed
\* under the pair of its two key columns
C14_Witness ==
  \E rd \in Readers :
    /\ handle = "Many"
    /\ index = <<1, 0>>
    /\ snap.ready
    /\ res[rd].tag = "ret"
    /\ res[rd].key = <<2, 1>>
    /\ res[rd].then = "identity"
    /\ res[rd].val = Some(<<Some(<< <<1, 2>> >>), snap.meta>>)

\* the table after applying the operations of a sequence, first to last
RECURSIVE ApplyAll(_, _)
ApplyAll(d, ops) ==
  IF ops = <<>> THEN d ELSE ApplyAll(Apply(d, Head(ops)), Tail(ops))

\* how many times row r occurs in bucket b
Times(b, r) == Cardinality({i \in 1..Len(b) : b[i] = r})

\* the rows of key k, none when the key is absent
BucketOf(d, k) == IF Has(d, k) THEN d[k] ELSE <<>>

\* two buckets hold the same rows with the same multiplicities
SameRows(b1, b2) == \A r \in Rows \cup ShortRows : Times(b1, r) = Times(b2, r)

\* the pending copy is the published one with the logged operations applied
\* in issue order, it is the table of the histories, and the published copy
\* is the table of the histories at the last refresh
Sequential ==
  /\ wpc # "refresh" =>
       /\ maps[pending].data = ApplyAll(maps[pub].data, oplog)
       /\ maps[pending].data = logical
  /\ snap.ready => maps[pub].data = snap.data

\* C15: operations take effect in issue order.  For the last two operations
\* issued since the last refresh, when they are records of the same row and
\* key: Negative(r) then Positive(r) on a bucket without r leaves r in it
\* once, Positive(r) then Negative(r) leaves the rows of the bucket as they
\* were; and the pending and published copies equal the sequential
\* application of the operations
C15_AppliedInIssueOrder ==
  /\ Sequential
  /\ (wpc # "refresh" /\ Len(oplog) >= 2) =>
       LET a == oplog[Len(oplog) - 1]
           b == oplog[Len(oplog)]
           d0 == ApplyAll(maps[pub].data, SubSeq(oplog, 1, Len(oplog) - 2))
           d2 == maps[pending].data
       IN (a.key = b.key /\ a.row = b.row) =>
            /\ (a.op = "remove" /\ b.op = "insert"
                  /\ Times(BucketOf(d0, a.key), a.row) = 0)
                 => Times(BucketOf(d2, a.key), a.row) = 1
            /\ (a.op = "insert" /\ b.op = "remove")
                 => SameRows(BucketOf(d2, a.key), BucketOf(d0, a.key))

\* add applied Negative(r) and then Positive(r) to a bucket holding another
\* row but not r: the bucket now holds r once
C15_Witness ==
  /\ wpc = "add"
  /\ Len(oplog) >= 3
  /\ LET a == oplog[Len(oplog) - 1]
         b == oplog[Len(oplog)]
     IN /\ a.op = "remove"
        /\ b.op = "insert"
        /\ a.key = b.key
        /\ a.row = b.row
        /\ Len(BucketOf(maps[pending].data, a.key)) = 2
        /\ Times(BucketOf(maps[pending].data, a.key), a.row) = 1

\* the number of rows a lookup result shows: -1 when the store is not ready or
\* the key is absent
RowsSeen(v, f) ==
  IF v.tag = "None" THEN -1
  ELSE IF v.val[1].tag = "None" THEN -1
  ELSE IF f = "count_rows" THEN v.val[1].val ELSE Len(v.val[1].val)

\* C16: for a key that only Positive records were issued for, the number of
\* rows the published copy shows never decreases and the key never goes from
\* present to absent, at any step of the writer; and when a reader looks the
\* same key up again, it sees at least as many rows as in its previous lookup
C16_GrownKeysNeverShrink ==
  [][/\ \A k \in Keys :
          k \notin shrunk' =>
            RowsSeen(LookupNow(k, "count_rows")', "count_rows")
              >= RowsSeen(LookupNow(k, "count_rows"), "count_rows")
     /\ \A rd \in Readers :
          (/\ res[rd].tag = "ret"
           /\ res'[rd].tag = "ret"
           /\ res'[rd].key = res[rd].key
           /\ res[rd].key \notin shrunk')
          => RowsSeen(res'[rd].val, res'[rd].then)
               >= RowsSeen(res[rd].val, res[rd].then)
    ]_vars

\* a reader counted one row of a key the writer only grows, after an add and
\* a refresh; the writer has since added a second row to the pending copy,
\* and a lookup now still counts one
C16_Witness ==
  \E rd \in Readers :
    /\ res[rd].tag = "ret"
    /\ res[rd].then = "count_rows"
    /\ res[rd].key \notin shrunk
    /\ res[rd].val = Some(<<Some(1), snap.meta>>)
    /\ LookupNow(res[rd].key, "count_rows") = res[rd].val
    /\ wpc \in {"idle", "add"}
    /\ Len(BucketOf(maps[pending].data, res[rd].key)) = 2

\* the arity of key k is not the one the backend takes
Mismatch(k) ==
  \/ handle = "Single" /\ Len(k) # 1
  \/ handle = "Double" /\ Len(k) # 2

\* C18: on Single and Double a clear, an empty or an add whose key has the
\* wrong arity faults without returning and without touching the table, and a
\* lookup with such a key faults and yields no result, a miss included
C18_ArityMismatchFaults ==
  /\ (call.op \in {"clear", "empty", "add"} /\ Mismatch(call.key)) =>
       (wpc = "fault" /\ ret = NoRet)
  /\ \A rd \in Readers :
       res[rd].tag \in {"ret", "fault"} =>
         (res[rd].tag = "fault" <=> Mismatch(res[rd].key))
  /\ \A i \in 1..Len(oplog) : ~Mismatch(oplog[i].key)
  /\ \A c \in 0..1 : \A k \in DOMAIN maps[c].data : ~Mismatch(k)

\* on a refreshed Double store a lookup with a one-value key faulted, and so
\* did a clear with a one-value key
C18_Witness ==
  \E rd \in Readers :
    /\ handle = "Double"
    /\ snap.ready
    /\ res[rd].tag = "fault"
    /\ Len(res[rd].key) = 1
    /\ wpc = "fault"
    /\ call.op = "clear"
    /\ Len(call.key) = 1

\* C19: when add reaches a BaseOperation record it faults: the call does not
\* return a memory delta and does not go on to the next record
C19_BaseOperationFaults ==
  (call.op = "record" /\ call.rec.tag = "BaseOperation") =>
    (wpc = "fault" /\ ret = NoRet)

\* add faulted on a BaseOperation record that followed a Positive record of
\* the same batch
C19_Witness ==
  /\ call.op = "record"
  /\ call.rec.tag = "BaseOperation"
  /\ wpc = "fault"
  /\ oplog # <<>>
  /\ oplog[Len(oplog)].op = "insert"
  /\ refDelta > 0

\* C20: a record whose row has fewer than `cols` values makes add fault
\* before the record is inserted or removed: no copy of the table ever holds
\* such a row
C20_ShortRowFaults ==
  /\ (call.op = "record" /\ call.rec.tag # "BaseOperation"
        /\ Len(call.rec.row) < cols) => wpc = "fault"
  /\ \A c \in 0..1 : \A k \in DOMAIN maps[c].data :
       \A i \in 1..Len(maps[c].data[k]) : Len(maps[c].data[k][i]) >= cols

\* C21: add files a row under the projection of the row onto the declared
\* column positions, in the declared order and with their arity: the call add
\* makes for a record carries the key (row[c0], row[c1], ...) for positions
\* [c0, c1, ...], every row a copy holds sits under that key, and a lookup of
\* the values in the opposite order does not find the row when they differ
C21_KeyInDeclaredOrder ==
  /\ (call.op = "record" /\ wpc = "add") =>
       /\ oplog # <<>>
       /\ oplog[Len(oplog)].row = call.rec.row
       /\ Len(oplog[Len(oplog)].key) = Len(addKey)
       /\ \A i \in 1..Len(addKey) :
            oplog[Len(oplog)].key[i] = call.rec.row[addKey[i] + 1]
  /\ \A c \in 0..1 : \A k \in DOMAIN maps[c].data :
       \A n \in 1..Len(maps[c].data[k]) :
         /\ Len(k) = Len(index)
         /\ \A i \in 1..Len(index) : k[i] = maps[c].data[k][n][index[i] + 1]
  /\ \A r \in Rows :
       (Len(index) = 2 /\ r[index[1] + 1] # r[index[2] + 1]) =>
         LET v == LookupNow(<<r[index[2] + 1], r[index[1] + 1]>>, "identity")
         IN v = None \/ v.val[1] = None \/ Times(v.val[1].val, r) = 0

\* a reader found the row (1, 2), inserted with positions [1, 0], under the
\* key (2, 1), and the key (1, 2) is a miss
C21_Witness ==
  \E rd \in Readers :
    /\ index = <<1, 0>>
    /\ res[rd].tag = "ret"
    /\ res[rd].key = <<2, 1>>
    /\ res[rd].then = "identity"
    /\ res[rd].val = Some(<<Some(<<(<<1, 2>>)>>), snap.meta>>)
    /\ LookupNow(<<2, 1>>, "identity") = res[rd].val
    /\ LookupNow(<<1, 2>>, "identity") = Some(<<None, snap.meta>>)

\* C22: buckets are multisets: a Positive record adds one entry of its row to
\* the bucket of its key, a Negative record takes away exactly one entry of
\* its row when the bucket holds one, and the number of entries of every
\* other row stays as it was; this holds when add applies the record and
\* when refresh replays it onto the other copy
C22_BucketsAreMultisets ==
  [][LET issued == wpc = "add" /\ Len(oplog') = Len(oplog) + 1
         replayed == wpc = "refresh" /\ oplog # <<>> /\ oplog' = Tail(oplog)
     IN (issued \/ replayed) =>
          LET o == IF issued THEN oplog'[Len(oplog')] ELSE Head(oplog)
              was == BucketOf(maps[pending].data, o.key)
              now == BucketOf(maps'[pending].data, o.key)
          IN o.op \in {"insert", "remove"} =>
               \A r \in Rows \cup ShortRows :
                 Times(now, r) =
                   IF r # o.row THEN Times(was, r)
                   ELSE IF o.op = "insert" THEN Times(was, r) + 1
                   ELSE IF Times(was, r) > 0 THEN Times(was, r) - 1
                   ELSE 0
    ]_vars

\* after two Positive records and one Negative record of the same row the
\* bucket holds one copy of it
C22_Witness ==
  /\ wpc = "add"
  /\ Len(oplog) = 3
  /\ oplog[1].op = "insert"
  /\ oplog[2] = oplog[1]
  /\ oplog[3] = RemoveOp(oplog[1].key, oplog[1].row)
  /\ BucketOf(maps[pending].data, oplog[1].key) = <<oplog[1].row>>

\* the part of a count that is not noise is x
Exactly(c, x) == c.v = x /\ c.w = 0

\* C23: DpAggregation::over faults with "cannot group by aggregation column"
\* whenever `over` is an element of `group_by`, at any position, and
\* constructs the operator with these columns otherwise
C23_OverRejectsGroupedColumn ==
  agg.stage # "none" =>
    IF \E i \in 1..Len(seen.group_by) : seen.group_by[i] = seen.over
    THEN agg.stage = "fault" /\ agg.msg = GroupByMsg
    ELSE /\ agg.msg # GroupByMsg
         /\ agg.over = seen.over
         /\ agg.group = seen.group_by
         /\ agg.counter.t >= 1
         /\ seen.op = "over" => agg.stage = "built"

\* over faulted on a column that is the second of two group-by columns
C23_Witness ==
  /\ seen.op = "over"
  /\ Len(seen.group_by) = 2
  /\ seen.group_by[2] = seen.over
  /\ seen.group_by[1] # seen.over
  /\ agg.stage = "fault"
  /\ agg.msg = GroupByMsg

\* C24: when one negative record reaches a group that has a count, and the
\* counter completes the step, the group is emitted again with its previous
\* count lowered by exactly one, noise aside
C24_NegativeLowersByOne ==
  (/\ seen.op = "input"
   /\ agg.stage = "ready"
   /\ seen.batch = <<FALSE>>
   /\ Has(seen.prev, seen.g))
    => /\ view.state[seen.g].v = seen.prev[seen.g].v - 1
       /\ view.state[seen.g].w = seen.prev[seen.g].w

\* C25: every input of a group completes and emits one Positive row with the
\* new count when it is the first input of the group, and otherwise a
\* Negative row with the previously emitted count followed by a Positive row
\* with the new count
C25_EmitsOneThenTwo ==
  seen.op = "input" =>
    /\ agg.stage = "ready"
    /\ Has(view.state, seen.g)
    /\ view.out =
         IF Has(seen.prev, seen.g)
         THEN <<[tag |-> "Negative", row |-> <<seen.g, seen.prev[seen.g]>>],
                [tag |-> "Positive", row |-> <<seen.g, view.state[seen.g]>>]>>
         ELSE <<[tag |-> "Positive", row |-> <<seen.g, view.state[seen.g]>>]>>

\* C26: the count emitted for a group depends on the records of that group
\* only: when only positive records were ever processed and the counter
\* completes the step, the first positive record of an unseen group is
\* emitted with count 1, noise aside, and every group's count is the number
\* of its own records
C26_CountOfOwnGroupOnly ==
  (seen.op = "input" /\ agg.stage = "ready" /\ seen.negs = 0) =>
    /\ (seen.batch = <<TRUE>> /\ ~Has(seen.prev, seen.g)) =>
         Exactly(view.state[seen.g], 1)
    /\ Exactly(view.state[seen.g], seen.true[seen.g])

\* C27: once a refresh has completed, and until the writer issues its next
\* operation, the two copies hold the same content: the same keys are
\* present and every key has the same bucket
C27_CopiesConverge ==
  (wpc # "refresh" /\ oplog = <<>>) => maps[0].data = maps[1].data

\* a refresh has completed and both copies hold the row that was added
\* before it
C27_Witness ==
  /\ wpc = "idle"
  /\ oplog = <<>>
  /\ snap.ready
  /\ maps[pending].ready
  /\ \E k \in DOMAIN maps[pub].data :
       /\ maps[pub].data[k] # <<>>
       /\ Has(maps[pending].data, k)
       /\ maps[pending].data[k] = maps[pub].data[k]

\* C28: a refresh that follows a refresh with no writer operation between
\* them changes no lookup result and no meta
C28_SecondRefreshChangesNothing ==
  [][(/\ pub' # pub
      /\ snap.ready
      /\ oplog = <<>>
      /\ logical = snap.data
      /\ lastSet = snap.meta)
       => /\ Visible' = Visible
          /\ wmeta' = wmeta
          /\ maps'[pub'].meta = maps[pub].meta]_vars

\* the second of two consecutive refreshes has swapped the copies and the
\* rows the first one published are still visible
C28_Witness ==
  /\ wpc = "refresh"
  /\ oplog = <<>>
  /\ pub = 0
  /\ snap.ready
  /\ maps[pending].ready
  /\ \E k \in Keys : /\ Has(maps[pub].data, k)
                     /\ maps[pub].data[k] # <<>>
                     /\ maps[pending].data = maps[pub].data

\* C29: writer operations are local to their key: when add applies a record
\* for key k, or clear(k) or empty(k) is called, every other key keeps its
\* presence and its bucket in both copies, also when refresh replays the
\* operation; none of them changes a meta; set_meta changes no key's presence
\* or bucket
C29_LocalToKey ==
  [][LET called == /\ nops' = nops + 1
                   /\ call'.op \in {"record", "clear", "empty"}
                   /\ wpc' # "fault"
         replayed == wpc = "refresh" /\ oplog # <<>> /\ oplog' = Tail(oplog)
         k == IF replayed THEN Head(oplog).key
              ELSE IF call'.op = "record"
                   THEN [i \in 1..Len(addKey) |-> call'.rec.row[addKey[i] + 1]]
                   ELSE call'.key
     IN /\ (called \/ replayed) =>
             \A c \in 0..1 :
               \A kk \in ((DOMAIN maps[c].data) \cup (DOMAIN maps'[c].data)) \ {k} :
                 /\ Has(maps[c].data, kk)
                 /\ Has(maps'[c].data, kk)
                 /\ maps'[c].data[kk] = maps[c].data[kk]
        /\ (wpc \in {"idle", "add"} /\ wpc' # "refresh"
              /\ ~(nops' = nops + 1 /\ ret'.op = "set_meta")) =>
             /\ wmeta' = wmeta
             /\ \A c \in 0..1 : maps'[c].meta = maps[c].meta
        /\ (nops' = nops + 1 /\ ret'.op = "set_meta") =>
             \A c \in 0..1 : maps'[c].data = maps[c].data
    ]_vars

\* clear was called on one of two populated keys and the other one still
\* holds its row
C29_Witness ==
  /\ call.op = "clear"
  /\ wpc = "idle"
  /\ Has(maps[pending].data, call.key)
  /\ maps[pending].data[call.key] = <<>>
  /\ \E kk \in DOMAIN maps[pending].data :
       kk # call.key /\ maps[pending].data[kk] # <<>>

\* C30: once setup has initialised the counter, every step of the hybrid
\* mechanism completes, and the binary mechanism it holds has its noise
\* distribution, its random generator and its two partial-sum maps
C30_StepsNeverFault ==
  /\ seen.op = "input" => agg.stage = "ready"
  /\ agg.stage = "ready" =>
       /\ agg.counter.b.noise_distr.tag = "Some"
       /\ agg.counter.b.rng.tag = "Some"
       /\ agg.counter.b.alphas.tag = "Some"
       /\ agg.counter.b.noisy_alphas.tag = "Some"

\* the sum of the last n of a sequence of elements
RECURSIVE SumLast(_, _)
SumLast(es, n) ==
  IF n = 0 \/ es = <<>> THEN 0
  ELSE es[Len(es)] + SumLast(SubSeq(es, 1, Len(es) - 1), n - 1)

\* C31: a BinaryMechanism that was initialised and stepped with non-negative
\* elements never reads the error default, and after the step numbered t,
\* whose lowest set bit is i > 0, the partial sum stored at level i is the
\* sum of the elements of the last 2^i steps
C31_NeverUsesDefault ==
  (/\ bin.stage = "live"
   /\ fed.elements # <<>>
   /\ \A n \in 1..Len(fed.elements) : fed.elements[n] >= 0)
    => /\ ~fed.defaulted
       /\ LET i == LowBit(Len(fed.elements))
          IN i > 0 =>
               /\ Has(bin.m.alphas.val, i)
               /\ bin.m.alphas.val[i] = U32(SumLast(fed.elements, 2 ^ i))

\* C32: a step of the hybrid mechanism with one diff completes and advances t
\* by exactly 1; when t > 1 is a power of two the binary mechanism is
\* replaced by a fresh one with window t, not stepped, and the output is the
\* logarithmic mechanism's; at every other t > 1 the binary mechanism is
\* stepped once and the output is the sum of both outputs
C32_HybridStep ==
  [][(/\ agg.stage = "ready"
      /\ seen'.op = "input"
      /\ seen'.diffs = seen.diffs + 1)
       => LET t == agg.counter.t
          IN /\ agg'.stage = "ready"
             /\ agg'.counter.t = t + 1
             /\ agg'.counter.l.t = agg.counter.l.t + 1
             /\ (t > 1 /\ IsPow2(t)) =>
                  /\ agg'.counter.b = BinaryNew(t)
                  /\ view'.state[seen'.g] = agg'.counter.l.prev_output
             /\ (t > 1 /\ ~IsPow2(t)) =>
                  /\ agg'.counter.b.t = agg.counter.b.t + 1
                  /\ view'.state[seen'.g] =
                       AddF64(agg'.counter.l.prev_output, agg'.counter.b.prev_output)
    ]_vars

\* C33: schema_version never decreases; it changes only in upgrade_schema,
\* to a new_version strictly greater than the current one; upgrade_schema
\* with any other new_version panics and leaves the converter as it was;
\* named_base_to_mir and named_query_to_mir leave schema_version alone
C33_SchemaVersionOnlyGrows ==
  [][/\ conv'.schema_version >= conv.schema_version
     /\ conv'.schema_version # conv.schema_version
          => /\ asked'.op = "upgrade_schema"
             /\ asked'.new_version > conv.schema_version
             /\ conv'.schema_version = asked'.new_version
     /\ asked'.op = "upgrade_schema"
          => IF asked'.new_version > conv.schema_version
             THEN mq'.tag = "unit" /\ conv'.schema_version = asked'.new_version
             ELSE mq'.tag = "panic" /\ conv' = conv
     /\ asked'.op \in {"named_base_to_mir", "named_query_to_mir"}
          => conv'.schema_version = conv.schema_version
    ]_vars

\* C33 witness: after a successful upgrade and base registrations at the new
\* version, an upgrade to the version already current panicked
C33_Witness ==
  /\ asked.op = "upgrade_schema"
  /\ asked.was = 1
  /\ asked.new_version = 1
  /\ conv.schema_version = 1
  /\ \E name \in Tables : <<name, 1>> \in conv.nodes
  /\ mq.tag = "panic"

\* C34: when every relation of the query graph is a base known at the
\* current version, named_query_to_mir returns a MirQuery; exactly one of the
\* nodes generated has no children, and it is the projection node named
\* after the query
C34_ExactlyOneLeaf ==
  (asked.op = "named_query_to_mir" /\ asked.known)
    => /\ mq.tag = "ret"
       /\ mq.leaves = {LeafNode(asked.name)}
       /\ mq.leaf = LeafNode(asked.name)

\* C35: no query graph (all have at most one edge per pair of relations)
\* takes the loop over the sorted edges into the branch marked unreachable
C35_UnreachableNeverTaken ==
  asked.op = "named_query_to_mir"
    => ~(mq.tag = "panic" /\ mq.msg = UnreachableMsg)

====
